---- MODULE Spec2Model ----
(***************************************************************************)
(* Overstock credit allocator (overstock_credit_allocator.py).             *)
(*                                                                         *)
(* The script is one batch run: discover the newest Overstock request      *)
(* file, aggregate the demand, expand the order log into a pool of         *)
(* (upc, order_number, datetime_ordered, avail_qty) records, deduct what    *)
(* the history ledger says was already used, allocate FIFO, write the      *)
(* outputs and append the batch to the history ledger.                     *)
(*                                                                         *)
(* Strings are sequences of one-character strings, so that BR and D are    *)
(* modelled by what they do to the characters.  A quantity cell is a       *)
(* token: non-numeric, or a number given in tenths ("2" is 20, "2.5" is    *)
(* 25), so that float parsing and int truncation are visible.  A raw       *)
(* order date is unparseable or a second count with a sub-second part.     *)
(***************************************************************************)
EXTENDS Integers, Sequences, FiniteSets, TLC

VARIABLES
    orderLog,    \* rows of the ORDER_LOG file (the same file for every run)
    ledger,      \* history_csv: [exists, rows]
    ledger0,     \* history_csv as it was before the first run
    outFiles,    \* latest_csv, unfilled_csv, credit_txt, credit_html, email_txt
    pc,          \* per process: position in the script
    ovFile,      \* per process: rows of OV_FILE
    req,         \* per process: the req frame (upc, qty), one row per upc
    pool,        \* per process: the pool frame
    alloc,       \* per process: the alloc list
    unfilled,    \* per process: the unfilled list
    newHist,     \* per process: the frame `new` built at lines 150-154
    stamp,       \* per process: reading of the clock for log_added_at
    runs,        \* number of runs started so far (also the clock)
    atStart,     \* per process: the files as they were when its run started
    prevRun,     \* the request file of the last run that completed
    overlapped,  \* some run reconciled while another was between read and write
    brIn,        \* an order id as it stands in the order log
    brOut,       \* BR applied to brIn
    brOut2,      \* BR applied to brOut
    brStage      \* how many times BR has been applied

vars == << orderLog, ledger, ledger0, outFiles, pc, ovFile, req, pool, alloc, unfilled,
           newHist, stamp, runs, atStart, prevRun, overlapped,
           brIn, brOut, brOut2, brStage >>

progVars == << orderLog, ledger, ledger0, outFiles, pc, ovFile, req, pool, alloc,
               unfilled, newHist, stamp, runs, atStart, prevRun, overlapped >>

brVars == << brIn, brOut, brOut2, brStage >>

----------------------------------------------------------------------------
(* Bounds *)

MaxLen == 4

MaxRuns == 3

----------------------------------------------------------------------------
(* Characters and strings *)

Digits == {"0", "1", "2", "3", "4", "5", "6", "7", "8", "9"}

Whitespace == {" "}

Brackets == {"[", "]"}

\* Code points of the characters the model uses (Python compares str by code point).
CharCode(c) ==
    CASE c = " " -> 32
      [] c = "-" -> 45
      [] c = "." -> 46
      [] c = "0" -> 48
      [] c = "1" -> 49
      [] c = "2" -> 50
      [] c = "3" -> 51
      [] c = "4" -> 52
      [] c = "5" -> 53
      [] c = "6" -> 54
      [] c = "7" -> 55
      [] c = "8" -> 56
      [] c = "9" -> 57
      [] c = "[" -> 91
      [] c = "]" -> 93
      [] OTHER -> 120

RECURSIVE StrLess(_, _)
\* s < t for Python str: lexicographic by code point, a proper prefix is smaller.
StrLess(s, t) ==
    IF t = << >> THEN FALSE
    ELSE IF s = << >> THEN TRUE
    ELSE IF CharCode(Head(s)) # CharCode(Head(t))
         THEN CharCode(Head(s)) < CharCode(Head(t))
    ELSE StrLess(Tail(s), Tail(t))

RECURSIVE LStrip(_, _)
LStrip(s, cs) ==
    IF s # << >> /\ Head(s) \in cs THEN LStrip(Tail(s), cs) ELSE s

RECURSIVE RStrip(_, _)
RStrip(s, cs) ==
    IF s # << >> /\ s[Len(s)] \in cs
    THEN RStrip(SubSeq(s, 1, Len(s) - 1), cs)
    ELSE s

\* str.strip(chars): every leading and trailing character in cs is removed.
Strip(s, cs) == RStrip(LStrip(s, cs), cs)

RECURSIVE BeforeDot(_)
\* s.split(".")[0]
BeforeDot(s) ==
    IF s = << >> \/ Head(s) = "." THEN << >>
    ELSE << Head(s) >> \o BeforeDot(Tail(s))

RECURSIVE D(_)
\* digits only
D(s) ==
    IF s = << >> THEN << >>
    ELSE IF Head(s) \in Digits THEN << Head(s) >> \o D(Tail(s))
    ELSE D(Tail(s))

\* Bracket Order ID
BR(x) ==
    LET s == Strip(x, Whitespace)
    IN  IF s = << >> THEN << >>
        ELSE LET s2 == Strip(s, Brackets)
                 s3 == Strip(BeforeDot(s2), Whitespace)
             IN  << "[" >> \o s3 \o << "]" >>

EXCLUDE_ORDERS ==
    { << "[", "1", "0", "8", "9", "3", "4", "0", "0", "0",
         "0", "0", "0", "0", "0", "0", "]" >>,
      << "[", "1", "0", "8", "9", "3", "5", "0", "0", "0",
         "0", "0", "0", "0", "0", "0", "]" >> }

----------------------------------------------------------------------------
(* Quantities and dates *)

\* A quantity cell: not a number, or a number in tenths.
NaNTok == [num |-> FALSE, tenths |-> 0]

Num(n) == [num |-> TRUE, tenths |-> 10 * n]

Frac(t) == [num |-> TRUE, tenths |-> t]

\* int(): truncation toward zero
Trunc(t) == IF t >= 0 THEN t \div 10 ELSE -((-t) \div 10)

\* pd.to_numeric(..., errors="coerce").fillna(0).astype(int)
ToInt(tok) == IF tok.num THEN Trunc(tok.tenths) ELSE 0

\* A raw order date: unparseable (NaT), or a second with a sub-second part.
NaT == [ok |-> FALSE, sec |-> 0, frac |-> 0]

At(s, f) == [ok |-> TRUE, sec |-> s, frac |-> f]

\* A plausible slip: NaT is left in the column, and sort_values puts it last.
OrderDtNaTLast(date) == IF date.ok THEN date.sec ELSE 99

\* _order_dt: strftime("%Y-%m-%d %H:%M:%S") drops the sub-second part and NaT
\* becomes "".  The key is 0 for "" and the second otherwise: the formatted
\* strings have one width, so they compare as their seconds do, after "".
OrderDt(date) == IF date.ok THEN date.sec ELSE 0

Min(a, b) == IF a <= b THEN a ELSE b

Max(a, b) == IF a >= b THEN a ELSE b

----------------------------------------------------------------------------
(* Demand: lines 58-68 *)

RECURSIVE SumQty(_)
\* sum of the qty field over the rows of s
SumQty(s) == IF s = << >> THEN 0 ELSE Head(s).qty + SumQty(Tail(s))

RECURSIVE SortedStrs(_)
\* the strings of S in ascending order (groupby sorts its keys)
SortedStrs(S) ==
    IF S = {} THEN << >>
    ELSE LET m == CHOOSE x \in S : \A y \in S \ {x} : StrLess(x, y)
         IN  << m >> \o SortedStrs(S \ {m})

\* A plausible slip: the query keeps every row that has a upc.
ReqRowsAnyQty(file) ==
    SelectSeq([i \in 1..Len(file) |->
                   [upc |-> D(file[i].upc), qty |-> ToInt(file[i].qty)]],
               LAMBDA r : r.upc # << >>)

\* assign(upc=D, qty=to_numeric...astype(int)).query("upc!='' and qty>0")
ReqRows(file) ==
    SelectSeq([i \in 1..Len(file) |->
                   [upc |-> D(file[i].upc), qty |-> ToInt(file[i].qty)]],
               LAMBDA r : r.upc # << >> /\ r.qty > 0)

\* .groupby("upc", as_index=False)["qty"].sum()
Aggregate(file) ==
    LET rows == ReqRows(file)
        keys == SortedStrs({rows[i].upc : i \in 1..Len(rows)})
    IN  [k \in 1..Len(keys) |->
            [upc |-> keys[k],
             qty |-> SumQty(SelectSeq(rows, LAMBDA r : r.upc = keys[k]))]]

ReqUpcs(rq) == {rq[i].upc : i \in 1..Len(rq)}

----------------------------------------------------------------------------
(* Pool: lines 70-98 *)

\* line 74: Thank You Confirmation where it is non-blank, else Order ID; then BR
OrderNumber(row) ==
    BR(IF Strip(row.thank, Whitespace) # << >> THEN row.thank ELSE row.oid)

RECURSIVE ParseCell(_, _, _)
\* lines 83-93: one record per line that parses to a upc and a quantity > 0
ParseCell(cell, oid, odt) ==
    IF cell = << >> THEN << >>
    ELSE LET ln == Head(cell)
             rest == ParseCell(Tail(cell), oid, odt)
         IN  IF Len(ln) < 2 THEN rest
             ELSE IF ~ln[2].num THEN rest
             ELSE IF D(ln[1]) # << >> /\ Trunc(ln[2].tenths) > 0
                  THEN << [upc |-> D(ln[1]), order_number |-> oid,
                           datetime_ordered |-> odt,
                           avail_qty |-> Trunc(ln[2].tenths)] >> \o rest
             ELSE rest

RECURSIVE AllRows(_)
\* lines 79-93: the rows list
AllRows(log) ==
    IF log = << >> THEN << >>
    ELSE LET row == Head(log)
             oid == OrderNumber(row)
         IN  (IF oid = << >> \/ row.cell = << >> THEN << >>
              ELSE ParseCell(row.cell, oid, OrderDt(row.date)))
             \o AllRows(Tail(log))

\* A plausible slip: the exclusion filter of line 97 is left out.
BuildPoolNoExclusion(log, rq) ==
    SelectSeq(AllRows(log), LAMBDA r : r.upc \in ReqUpcs(rq))

\* lines 95-98
BuildPool(log, rq) ==
    SelectSeq(SelectSeq(AllRows(log), LAMBDA r : r.upc \in ReqUpcs(rq)),
               LAMBDA r : r.order_number \notin EXCLUDE_ORDERS)

----------------------------------------------------------------------------
(* History consumption: lines 100-119 *)

\* lines 105-108: ledger rows with normalised keys, denylisted orders removed
NormHist(hrows) ==
    SelectSeq([i \in 1..Len(hrows) |->
                  [order_number |-> BR(hrows[i].order_number),
                   upc |-> D(hrows[i].upc),
                   qty |-> hrows[i].qty]],
              LAMBDA r : r.order_number \notin EXCLUDE_ORDERS)

\* A plausible slip: the used frame is grouped and merged on the order number only.
UsedQtyAnyUpc(h, o, u) ==
    SumQty(SelectSeq(h, LAMBDA r : r.order_number = o))

\* lines 110-114: the used frame, read at one key
UsedQty(h, o, u) ==
    SumQty(SelectSeq(h, LAMBDA r : r.order_number = o /\ r.upc = u))

\* A plausible slip: the ledger is not deducted.
DeductNothing(avail, used) == avail

\* A plausible slip: the sign of the deduction is wrong.
DeductAdded(avail, used) == avail + used

\* line 118
Deduct(avail, used) == Max(0, avail - used)

\* A plausible slip: the history branch is skipped.
ReconcileSkipped(pl, hrows) == pl

\* lines 116-119: left merge on (order_number, upc), deduct, drop exhausted
Reconcile(pl, hrows) ==
    LET h == NormHist(hrows)
    IN  SelectSeq([i \in 1..Len(pl) |->
                      [pl[i] EXCEPT !.avail_qty =
                          Deduct(@, UsedQty(h, pl[i].order_number, pl[i].upc))]],
                  LAMBDA r : r.avail_qty > 0)

----------------------------------------------------------------------------
(* FIFO order: lines 121-122 *)

\* A plausible slip: the date is left out of the sort key.
RecLessNoDate(a, b) ==
    \/ StrLess(a.upc, b.upc)
    \/ a.upc = b.upc /\ StrLess(a.order_number, b.order_number)

\* A plausible slip: the order number is left out of the sort key.
RecLessNoOrder(a, b) ==
    \/ StrLess(a.upc, b.upc)
    \/ a.upc = b.upc /\ a.datetime_ordered < b.datetime_ordered

\* sort_values(["upc", "datetime_ordered", "order_number"])
RecLess(a, b) ==
    \/ StrLess(a.upc, b.upc)
    \/ /\ a.upc = b.upc
       /\ \/ a.datetime_ordered < b.datetime_ordered
          \/ /\ a.datetime_ordered = b.datetime_ordered
             /\ StrLess(a.order_number, b.order_number)

RECURSIVE InsertRec(_, _)
\* x goes before the first record that is greater: equal keys keep their order
InsertRec(x, s) ==
    IF s = << >> THEN << x >>
    ELSE IF RecLess(x, Head(s)) THEN << x >> \o s
    ELSE << Head(s) >> \o InsertRec(x, Tail(s))

RECURSIVE SortInto(_, _)
SortInto(s, acc) ==
    IF s = << >> THEN acc ELSE SortInto(Tail(s), InsertRec(Head(s), acc))

SortPool(pl) == SortInto(pl, << >>)

----------------------------------------------------------------------------
(* Allocation: lines 124-139 *)

\* A plausible slip: the whole record is taken whatever is needed.
TakeAll(need, avail) == avail

\* line 133
Take(need, avail) == Min(need, avail)

RECURSIVE AllocItem(_, _, _, _, _)
\* lines 129-137: the records of one upc in pool order, from index i
AllocItem(pl, i, upc, need, al) ==
    IF i > Len(pl) THEN [pool |-> pl, alloc |-> al, need |-> need]
    ELSE IF pl[i].upc # upc THEN AllocItem(pl, i + 1, upc, need, al)
    ELSE IF need <= 0 THEN [pool |-> pl, alloc |-> al, need |-> need]
    ELSE LET take == Take(need, pl[i].avail_qty)
         IN  IF take > 0
             THEN AllocItem([pl EXCEPT ![i].avail_qty = @ - take], i + 1, upc,
                            need - take,
                            Append(al, [order_number |-> pl[i].order_number,
                                        datetime_ordered |-> pl[i].datetime_ordered,
                                        upc |-> upc,
                                        qty |-> take]))
             ELSE AllocItem(pl, i + 1, upc, need, al)

RECURSIVE AllocAll(_, _)
\* lines 128-139: one pass per row of req
AllocAll(rq, st) ==
    IF rq = << >> THEN st
    ELSE LET r == AllocItem(st.pool, 1, Head(rq).upc, Head(rq).qty, st.alloc)
         IN  AllocAll(Tail(rq),
                      [pool |-> r.pool,
                       alloc |-> r.alloc,
                       unfilled |-> IF r.need > 0
                                    THEN Append(st.unfilled,
                                                [upc |-> Head(rq).upc, qty |-> r.need])
                                    ELSE st.unfilled])

\* A plausible slip: what is left of the need is not recorded.
AllocateRunNoUnfilled(rq, pl) ==
    [AllocAll(rq, [pool |-> pl, alloc |-> << >>, unfilled |-> << >>])
        EXCEPT !.unfilled = << >>]

AllocateRun(rq, pl) ==
    AllocAll(rq, [pool |-> pl, alloc |-> << >>, unfilled |-> << >>])

----------------------------------------------------------------------------
(* Output frames: lines 141-167 *)

\* lines 142-143 and out.astype(str): the batch with its log_added_at column
HistoryRows(al, at) ==
    [i \in 1..Len(al) |->
        [order_number |-> al[i].order_number,
         datetime_ordered |-> al[i].datetime_ordered,
         upc |-> al[i].upc,
         qty |-> al[i].qty,
         log_added_at |-> at]]

\* line 159: the regex ^\[|\]$ removes one leading [ and one trailing ]
Unbracket(s) ==
    LET s1 == IF s # << >> /\ Head(s) = "[" THEN Tail(s) ELSE s
    IN  IF s1 # << >> /\ s1[Len(s1)] = "]" THEN SubSeq(s1, 1, Len(s1) - 1) ELSE s1

PairLess(a, b) ==
    \/ StrLess(a[1], b[1])
    \/ a[1] = b[1] /\ StrLess(a[2], b[2])

RECURSIVE SortedPairs(_)
SortedPairs(S) ==
    IF S = {} THEN << >>
    ELSE LET m == CHOOSE x \in S : \A y \in S \ {x} : PairLess(x, y)
         IN  << m >> \o SortedPairs(S \ {m})

\* lines 158-167: the grouped (Order Number, UPC, Qty) summary
Summary(al) ==
    LET w == [i \in 1..Len(al) |->
                 [order_number |-> Unbracket(al[i].order_number),
                  upc |-> D(al[i].upc),
                  qty |-> al[i].qty]]
        keys == SortedPairs({<< w[i].order_number, w[i].upc >> : i \in 1..Len(w)})
    IN  [k \in 1..Len(keys) |->
            [order_number |-> keys[k][1],
             upc |-> keys[k][2],
             qty |-> UsedQty(w, keys[k][1], keys[k][2])]]

----------------------------------------------------------------------------
(* Inputs *)

S7 == << "7" >>

S8 == << "8" >>

Deny1Raw ==
    << "1", "0", "8", "9", "3", "4", "0", "0", "0", "0", "0", "0", "0", "0", "0" >>

\* Order ID 1, one line
Row1 ==
    [oid |-> << "1" >>, thank |-> << >>, date |-> At(1, 0),
     cell |-> << << S7, Num(2) >> >>]

\* Order ID exported as a float, two lines
Row2 ==
    [oid |-> << "2", ".", "0" >>, thank |-> << >>, date |-> At(2, 0),
     cell |-> << << S7, Num(2) >>, << S8, Num(1) >> >>]

\* a denylisted confirmation number, the earliest order of upc 7
RowDeny ==
    [oid |-> << "9" >>, thank |-> Deny1Raw, date |-> At(1, 0),
     cell |-> << << S7, Num(3) >> >>]

\* a bracketed id followed by a float remainder; blank confirmation
RowDot ==
    [oid |-> << "[", "3", "]", ".", "0" >>, thank |-> << " " >>,
     date |-> At(1, 5),
     cell |-> << << S7, Num(1) >> >>]

\* order 1 again: the same upc on two lines, and lines that do not parse
RowDup ==
    [oid |-> << " ", "[", "1", "]" >>, thank |-> << >>, date |-> At(2, 5),
     cell |-> << << << "7", "-" >>, Num(1) >>,
                 << S7 >>,
                 << S7, Frac(25) >>,
                 << S8, NaNTok >>,
                 << << "x" >>, Num(1) >> >>]

\* a date that does not parse
RowNaT ==
    [oid |-> << "4" >>, thank |-> << >>, date |-> NaT,
     cell |-> << << S7, Num(1) >> >>]

\* no order id at all: skipped
RowBlank ==
    [oid |-> << " " >>, thank |-> << >>, date |-> At(1, 0),
     cell |-> << << S7, Num(4) >> >>]

OrderLogs ==
    { << Row1, Row2 >>,
      << Row2, RowBlank, Row1 >>,
      << RowDeny, Row1 >>,
      << RowDot >>,
      << RowDot, Row2 >>,
      << Row1, RowDup >>,
      << Row1, RowNaT >> }

OvFiles ==
    { << [upc |-> S7, qty |-> Num(1)] >>,
      << [upc |-> S7, qty |-> Num(2)], [upc |-> << "7", "-" >>, qty |-> Num(1)] >>,
      << [upc |-> S7, qty |-> Num(5)] >>,
      << [upc |-> S8, qty |-> Num(1)], [upc |-> S7, qty |-> Num(1)] >>,
      << [upc |-> << "x" >>, qty |-> Num(2)], [upc |-> S7, qty |-> NaNTok],
         [upc |-> S8, qty |-> Frac(-10)], [upc |-> S7, qty |-> Frac(25)],
         [upc |-> S7, qty |-> Frac(5)] >> }

NoLedger == [exists |-> FALSE, rows |-> << >>]

\* a ledger kept from earlier use: an unbracketed order id, a denylisted order
LegacyLedger ==
    [exists |-> TRUE,
     rows |-> << [order_number |-> << "1" >>, datetime_ordered |-> 1,
                  upc |-> S7, qty |-> 1, log_added_at |-> 0],
                 [order_number |-> BR(Deny1Raw), datetime_ordered |-> 1,
                  upc |-> S7, qty |-> 2, log_added_at |-> 0] >>]

InitLedgers == {NoLedger, LegacyLedger}

\* Two orders of upc 7, ten units each, the first four days before the second;
\* a request for fifteen; a ledger that records the ten of the first order.
S100 == << "[", "1", "0", "0", "]" >>

S101 == << "[", "1", "0", "1", "]" >>

Row100 ==
    [oid |-> << "1", "0", "0" >>, thank |-> << >>, date |-> At(1, 0),
     cell |-> << << S7, Num(10) >> >>]

Row101 ==
    [oid |-> << "1", "0", "1" >>, thank |-> << >>, date |-> At(5, 0),
     cell |-> << << S7, Num(10) >> >>]

ScenarioLog == << Row100, Row101 >>

\* Orders 9 and 10 of upc 7, placed within the same second, 9 first.
Row9 ==
    [oid |-> << "9" >>, thank |-> << >>, date |-> At(3, 0),
     cell |-> << << S7, Num(1) >> >>]

Row10 ==
    [oid |-> << "1", "0" >>, thank |-> << >>, date |-> At(3, 5),
     cell |-> << << S7, Num(2) >> >>]

TieLog == << Row9, Row10 >>

ScenarioFile == << [upc |-> S7, qty |-> Num(15)] >>

ScenarioLedger ==
    [exists |-> TRUE,
     rows |-> << [order_number |-> S100, datetime_ordered |-> 1,
                  upc |-> S7, qty |-> 10, log_added_at |-> 0] >>]

----------------------------------------------------------------------------
(* State machine *)

Procs == {1, 2}

NoFile == [exists |-> FALSE, rows |-> << >>]

FileOf(rows) == [exists |-> TRUE, rows |-> rows]

NoOutputs ==
    [latest |-> NoFile, unfilled |-> NoFile, credit |-> NoFile,
     html |-> NoFile, email |-> NoFile]

NoPrev == [done |-> FALSE, ov |-> << >>]

Stopped == {"idle", "done", "failed", "crashed"}

\* positions at which the next statement writes a file
Writing == {"writelatest", "writeunfilled", "appendwrite", "credit", "html", "email"}

\* positions after the history read of line 102 and before the write of line 155
Reconciled == {"allocate", "writelatest", "writeunfilled", "appendread", "appendwrite"}

Fresh(f) == [q \in Procs |-> f]

InitFrom(logs, ledgers) ==
    /\ orderLog \in logs
    /\ ledger \in ledgers
    /\ ledger0 = ledger
    /\ outFiles = NoOutputs
    /\ pc = Fresh("idle")
    /\ ovFile = Fresh(<< >>)
    /\ req = Fresh(<< >>)
    /\ pool = Fresh(<< >>)
    /\ alloc = Fresh(<< >>)
    /\ unfilled = Fresh(<< >>)
    /\ newHist = Fresh(<< >>)
    /\ stamp = Fresh(0)
    /\ runs = 0
    /\ atStart = Fresh([ledger |-> ledger, outFiles |-> NoOutputs])
    /\ prevRun = NoPrev
    /\ overlapped = FALSE

InitProg == InitFrom(OrderLogs, InitLedgers)

InitBRIdle ==
    /\ brIn = << >>
    /\ brOut = << >>
    /\ brOut2 = << >>
    /\ brStage = 0

Init == InitProg /\ InitBRIdle

\* lines 45-68: the newest Overstock file is found and aggregated
DiscoverIn(p, files) ==
    /\ pc[p] \in Stopped
    /\ \E f \in files :
          /\ ovFile' = [ovFile EXCEPT ![p] = f]
          /\ req' = [req EXCEPT ![p] = Aggregate(f)]
    /\ pc' = [pc EXCEPT ![p] = "loadlog"]
    /\ pool' = [pool EXCEPT ![p] = << >>]
    /\ alloc' = [alloc EXCEPT ![p] = << >>]
    /\ unfilled' = [unfilled EXCEPT ![p] = << >>]
    /\ newHist' = [newHist EXCEPT ![p] = << >>]
    /\ stamp' = [stamp EXCEPT ![p] = 0]
    /\ runs' = runs + 1
    /\ atStart' = [atStart EXCEPT ![p] = [ledger |-> ledger, outFiles |-> outFiles]]
    /\ UNCHANGED << orderLog, ledger0, ledger, outFiles, prevRun, overlapped >>
    /\ UNCHANGED brVars

Discover(p) == DiscoverIn(p, OvFiles)

\* lines 48-54: no Overstock file, FileNotFoundError
DiscoverNone(p) ==
    /\ pc[p] \in Stopped
    /\ pc' = [pc EXCEPT ![p] = "failed"]
    /\ ovFile' = [ovFile EXCEPT ![p] = << >>]
    /\ req' = [req EXCEPT ![p] = << >>]
    /\ pool' = [pool EXCEPT ![p] = << >>]
    /\ alloc' = [alloc EXCEPT ![p] = << >>]
    /\ unfilled' = [unfilled EXCEPT ![p] = << >>]
    /\ newHist' = [newHist EXCEPT ![p] = << >>]
    /\ stamp' = [stamp EXCEPT ![p] = 0]
    /\ runs' = runs + 1
    /\ atStart' = [atStart EXCEPT ![p] = [ledger |-> ledger, outFiles |-> outFiles]]
    /\ prevRun' = NoPrev
    /\ UNCHANGED << orderLog, ledger0, ledger, outFiles, overlapped >>
    /\ UNCHANGED brVars

\* lines 70-98: the order log is read and expanded into the pool
LoadOrderLog(p) ==
    /\ pc[p] = "loadlog"
    /\ pool' = [pool EXCEPT ![p] = BuildPool(orderLog, req[p])]
    /\ pc' = [pc EXCEPT ![p] = "history"]
    /\ UNCHANGED << orderLog, ledger0, ledger, outFiles, ovFile, req, alloc, unfilled,
                    newHist, stamp, runs, atStart, prevRun, overlapped >>
    /\ UNCHANGED brVars

\* A plausible slip: latest_csv is opened for writing before the order log is read.
LoadOrderLogMissingAfterOpen(p) ==
    /\ pc[p] = "loadlog"
    /\ pc' = [pc EXCEPT ![p] = "failed"]
    /\ prevRun' = NoPrev
    /\ outFiles' = [outFiles EXCEPT !.latest = FileOf(<< >>)]
    /\ UNCHANGED << orderLog, ledger0, ledger, ovFile, req, pool, alloc,
                    unfilled, newHist, stamp, runs, atStart, overlapped >>
    /\ UNCHANGED brVars

\* line 71: ORDER_LOG is not there, read_csv raises
LoadOrderLogMissing(p) ==
    /\ pc[p] = "loadlog"
    /\ pc' = [pc EXCEPT ![p] = "failed"]
    /\ prevRun' = NoPrev
    /\ UNCHANGED << orderLog, ledger0, ledger, outFiles, ovFile, req, pool, alloc,
                    unfilled, newHist, stamp, runs, atStart, overlapped >>
    /\ UNCHANGED brVars

\* lines 100-122: the ledger is read, deducted from the pool, the pool sorted
ApplyHistory(p) ==
    /\ pc[p] = "history"
    /\ pool' = [pool EXCEPT ![p] =
                   SortPool(IF ledger.exists
                            THEN Reconcile(pool[p], ledger.rows)
                            ELSE pool[p])]
    /\ overlapped' = (overlapped \/ \E q \in Procs \ {p} : pc[q] \in Reconciled)
    /\ pc' = [pc EXCEPT ![p] = "allocate"]
    /\ UNCHANGED << orderLog, ledger0, ledger, outFiles, ovFile, req, alloc, unfilled,
                    newHist, stamp, runs, atStart, prevRun >>
    /\ UNCHANGED brVars

\* lines 124-143: the FIFO loop and the out frame
Allocate(p) ==
    /\ pc[p] = "allocate"
    /\ LET r == AllocateRun(req[p], pool[p])
       IN  /\ pool' = [pool EXCEPT ![p] = r.pool]
           /\ alloc' = [alloc EXCEPT ![p] = r.alloc]
           /\ unfilled' = [unfilled EXCEPT ![p] = r.unfilled]
    /\ stamp' = [stamp EXCEPT ![p] = runs]
    /\ pc' = [pc EXCEPT ![p] = "writelatest"]
    /\ UNCHANGED << orderLog, ledger0, ledger, outFiles, ovFile, req, newHist, runs,
                    atStart, prevRun, overlapped >>
    /\ UNCHANGED brVars

\* line 146
WriteLatest(p) ==
    /\ pc[p] = "writelatest"
    /\ outFiles' = [outFiles EXCEPT !.latest = FileOf(alloc[p])]
    /\ pc' = [pc EXCEPT ![p] = "writeunfilled"]
    /\ UNCHANGED << orderLog, ledger0, ledger, ovFile, req, pool, alloc, unfilled,
                    newHist, stamp, runs, atStart, prevRun, overlapped >>
    /\ UNCHANGED brVars

\* line 147
WriteUnfilled(p) ==
    /\ pc[p] = "writeunfilled"
    /\ outFiles' = [outFiles EXCEPT !.unfilled = FileOf(unfilled[p])]
    /\ pc' = [pc EXCEPT ![p] = "appendread"]
    /\ UNCHANGED << orderLog, ledger0, ledger, ovFile, req, pool, alloc, unfilled,
                    newHist, stamp, runs, atStart, prevRun, overlapped >>
    /\ UNCHANGED brVars

\* A plausible slip: the batch replaces the ledger instead of extending it.
NewFrameOverwrite(old, batch) == batch

\* line 152: pd.concat([old, out.astype(str)])
NewFrame(old, batch) == old \o batch

\* lines 150-154: the ledger is read again and the batch put after it
AppendRead(p) ==
    /\ pc[p] = "appendread"
    /\ newHist' = [newHist EXCEPT ![p] =
                      IF ledger.exists
                      THEN NewFrame(ledger.rows, HistoryRows(alloc[p], stamp[p]))
                      ELSE HistoryRows(alloc[p], stamp[p])]
    /\ pc' = [pc EXCEPT ![p] = "appendwrite"]
    /\ UNCHANGED << orderLog, ledger0, ledger, outFiles, ovFile, req, pool, alloc,
                    unfilled, stamp, runs, atStart, prevRun, overlapped >>
    /\ UNCHANGED brVars

\* line 155
AppendWrite(p) ==
    /\ pc[p] = "appendwrite"
    /\ ledger' = FileOf(newHist[p])
    /\ pc' = [pc EXCEPT ![p] = "credit"]
    /\ UNCHANGED << orderLog, ledger0, outFiles, ovFile, req, pool, alloc, unfilled,
                    newHist, stamp, runs, atStart, prevRun, overlapped >>
    /\ UNCHANGED brVars

\* lines 158-172
WriteCredit(p) ==
    /\ pc[p] = "credit"
    /\ outFiles' = [outFiles EXCEPT !.credit = FileOf(Summary(alloc[p]))]
    /\ pc' = [pc EXCEPT ![p] = "html"]
    /\ UNCHANGED << orderLog, ledger0, ledger, ovFile, req, pool, alloc, unfilled,
                    newHist, stamp, runs, atStart, prevRun, overlapped >>
    /\ UNCHANGED brVars

\* lines 175-194
WriteHtml(p) ==
    /\ pc[p] = "html"
    /\ outFiles' = [outFiles EXCEPT !.html = FileOf(Summary(alloc[p]))]
    /\ pc' = [pc EXCEPT ![p] = "email"]
    /\ UNCHANGED << orderLog, ledger0, ledger, ovFile, req, pool, alloc, unfilled,
                    newHist, stamp, runs, atStart, prevRun, overlapped >>
    /\ UNCHANGED brVars

\* lines 196-217: the last file is written and the run ends
WriteEmail(p) ==
    /\ pc[p] = "email"
    /\ outFiles' = [outFiles EXCEPT !.email = FileOf(Summary(alloc[p]))]
    /\ pc' = [pc EXCEPT ![p] = "done"]
    /\ prevRun' = [done |-> TRUE, ov |-> ovFile[p]]
    /\ UNCHANGED << orderLog, ledger0, ledger, ovFile, req, pool, alloc, unfilled,
                    newHist, stamp, runs, atStart, overlapped >>
    /\ UNCHANGED brVars

\* lines 146, 147, 155, 172, 194, 208: the write raises (the target is locked or
\* the volume is gone), nothing of it is written and the script stops there
WriteFails(p) ==
    /\ pc[p] \in Writing
    /\ pc' = [pc EXCEPT ![p] = "crashed"]
    /\ prevRun' = NoPrev
    /\ UNCHANGED << orderLog, ledger0, ledger, outFiles, ovFile, req, pool, alloc,
                    unfilled, newHist, stamp, runs, atStart, overlapped >>
    /\ UNCHANGED brVars

Step(p) ==
    \/ LoadOrderLog(p)
    \/ LoadOrderLogMissing(p)
    \/ ApplyHistory(p)
    \/ Allocate(p)
    \/ WriteLatest(p)
    \/ WriteUnfilled(p)
    \/ AppendRead(p)
    \/ AppendWrite(p)
    \/ WriteCredit(p)
    \/ WriteHtml(p)
    \/ WriteEmail(p)

\* Single writer: runs do not overlap, so they are the runs of one process,
\* one after the other.
Writer == CHOOSE p \in Procs : \A q \in Procs : p <= q

Next ==
    \/ runs < MaxRuns /\ Discover(Writer)
    \/ runs < MaxRuns /\ DiscoverNone(Writer)
    \/ Step(Writer)

Spec == Init /\ [][Next]_vars

\* The same runs over more inputs: the two ten-unit orders, the request for
\* fifteen and the ledger of ten, and the two orders of one second, are added
\* to the order logs, request files and ledgers above.
InitScenario ==
    /\ InitFrom(OrderLogs \cup {ScenarioLog, TieLog},
                InitLedgers \cup {ScenarioLedger})
    /\ InitBRIdle

NextScenario ==
    \/ runs < MaxRuns /\ DiscoverIn(Writer, OvFiles \cup {ScenarioFile})
    \/ runs < MaxRuns /\ DiscoverNone(Writer)
    \/ Step(Writer)

SpecScenario == InitScenario /\ [][NextScenario]_vars

\* The same runs, any write of which may fail; the script is then run again.
NextCrash ==
    \/ Next
    \/ WriteFails(Writer)

SpecCrash == Init /\ [][NextCrash]_vars

\* No mutual exclusion: two runs are launched against an absent ledger, each
\* process being one run of the script.
InitConc == Init /\ ledger = NoLedger

NextConc ==
    \E p \in Procs :
        \/ pc[p] = "idle" /\ Discover(p)
        \/ pc[p] = "idle" /\ DiscoverNone(p)
        \/ Step(p)

SpecConc == InitConc /\ [][NextConc]_vars

----------------------------------------------------------------------------
(* Normalisation applied twice: line 74 writes BR(x), line 105 applies BR again *)

BRAlphabet == {"[", "]", ".", " ", "1"}

BRInputs == UNION {[1..n -> BRAlphabet] : n \in 0..MaxLen}

InitBR ==
    /\ orderLog = << >>
    /\ ledger = NoLedger
    /\ ledger0 = NoLedger
    /\ outFiles = NoOutputs
    /\ pc = Fresh("idle")
    /\ ovFile = Fresh(<< >>)
    /\ req = Fresh(<< >>)
    /\ pool = Fresh(<< >>)
    /\ alloc = Fresh(<< >>)
    /\ unfilled = Fresh(<< >>)
    /\ newHist = Fresh(<< >>)
    /\ stamp = Fresh(0)
    /\ runs = 0
    /\ atStart = Fresh([ledger |-> NoLedger, outFiles |-> NoOutputs])
    /\ prevRun = NoPrev
    /\ overlapped = FALSE
    /\ brIn \in BRInputs
    /\ brOut = << >>
    /\ brOut2 = << >>
    /\ brStage = 0

\* line 74: the order id is normalised for the pool
ApplyBR ==
    /\ brStage = 0
    /\ brOut' = BR(brIn)
    /\ brStage' = 1
    /\ UNCHANGED << brIn, brOut2 >>
    /\ UNCHANGED progVars

\* line 105: the ledger's Order Number is normalised again
ReapplyBR ==
    /\ brStage = 1
    /\ brOut2' = BR(brOut)
    /\ brStage' = 2
    /\ UNCHANGED << brIn, brOut >>
    /\ UNCHANGED progVars

NextBR == ApplyBR \/ ReapplyBR

SpecBR == InitBR /\ [][NextBR]_vars

----------------------------------------------------------------------------
(* Properties *)

\* positions at which the run's alloc and unfilled lists are complete
Allocated == {"writelatest", "writeunfilled", "appendread", "appendwrite",
              "credit", "html", "email", "done"}

\* positions at which the run's batch is in the ledger
Appended == {"credit", "html", "email", "done"}

RECURSIVE SumAvail(_)
SumAvail(s) == IF s = << >> THEN 0 ELSE Head(s).avail_qty + SumAvail(Tail(s))

\* the quantity of upc u the order log holds for order number o
Ordered(o, u) ==
    SumAvail(SelectSeq(AllRows(orderLog),
                       LAMBDA r : r.order_number = o /\ r.upc = u))

\* the quantity the ledger rows record for order number o and upc u
LedgerQty(o, u) ==
    SumQty(SelectSeq(ledger.rows, LAMBDA r : r.order_number = o /\ r.upc = u))

\* C1: from an absent ledger, after any sequence of single-writer runs, the
\* ledger rows of every (Order Number, UPC) sum to no more than the quantity
\* the order log holds for that order and upc.
NoOverAllocation ==
    ledger0 = NoLedger =>
        \A i \in 1..Len(ledger.rows) :
            LedgerQty(ledger.rows[i].order_number, ledger.rows[i].upc)
                <= Ordered(ledger.rows[i].order_number, ledger.rows[i].upc)

\* The same bound, for the order numbers that BR leaves as they are.
NoOverAllocationOfNormalised ==
    ledger0 = NoLedger =>
        \A i \in 1..Len(ledger.rows) :
            BR(ledger.rows[i].order_number) = ledger.rows[i].order_number =>
                LedgerQty(ledger.rows[i].order_number, ledger.rows[i].upc)
                    <= Ordered(ledger.rows[i].order_number, ledger.rows[i].upc)

\* positions at which alloc is complete and the run has not yet written the ledger
BeforeAppend == {"writelatest", "writeunfilled", "appendread", "appendwrite"}

\* p runs on the request file of the run that completed just before it
Rerun(p) ==
    /\ pc[p] \in BeforeAppend
    /\ prevRun.done
    /\ prevRun.ov = ovFile[p]

\* every order number of p's pool is one that BR leaves as it is
PoolNormalised(p) ==
    LET pl == BuildPool(orderLog, req[p])
    IN  \A i \in 1..Len(pl) : BR(pl[i].order_number) = pl[i].order_number

LedgerCovers(p) ==
    LET pl == BuildPool(orderLog, req[p])
        h == NormHist(ledger.rows)
    IN  \A i \in 1..Len(pl) :
            UsedQty(h, pl[i].order_number, pl[i].upc) >= pl[i].avail_qty

QtyOfUpc(rows, u) == SumQty(SelectSeq(rows, LAMBDA r : r.upc = u))

\* C3: in one run, for every requested upc, the allocated quantities plus the
\* unfilled quantity equal the aggregated requested quantity.
Conservation ==
    \A p \in Procs :
        pc[p] \in Allocated =>
            \A i \in 1..Len(req[p]) :
                QtyOfUpc(alloc[p], req[p][i].upc) + QtyOfUpc(unfilled[p], req[p][i].upc)
                    = req[p][i].qty

PartlyFilled ==
    \E p \in Procs :
        /\ pc[p] \in Allocated
        /\ \E i \in 1..Len(req[p]) :
              /\ QtyOfUpc(alloc[p], req[p][i].upc) > 0
              /\ QtyOfUpc(unfilled[p], req[p][i].upc) > 0

\* record j of the pool is of the same upc as alloc row i and has an earlier
\* parsed order date
EarlierRecord(p, i, j) ==
    /\ pool[p][j].upc = alloc[p][i].upc
    /\ pool[p][j].datetime_ordered # 0
    /\ pool[p][j].datetime_ordered < alloc[p][i].datetime_ordered

\* C4: in one run, a row is allocated from a record only if every record of
\* the same upc with an earlier order date has no quantity left.
FifoOrder ==
    \A p \in Procs :
        pc[p] \in Allocated =>
            \A i \in 1..Len(alloc[p]) : \A j \in 1..Len(pool[p]) :
                EarlierRecord(p, i, j) => pool[p][j].avail_qty = 0

LaterRecordUsed ==
    \E p \in Procs :
        /\ pc[p] \in Allocated
        /\ \E i \in 1..Len(alloc[p]) : \E j \in 1..Len(pool[p]) :
              EarlierRecord(p, i, j)

\* C5: no alloc row, and no row a run appends to the ledger, has an order
\* number of the denylist.
NoDeniedAllocation ==
    /\ \A p \in Procs : \A i \in 1..Len(alloc[p]) :
          alloc[p][i].order_number \notin EXCLUDE_ORDERS
    /\ \A i \in (Len(ledger0.rows) + 1)..Len(ledger.rows) :
          ledger.rows[i].order_number \notin EXCLUDE_ORDERS
    /\ \A i \in 1..Len(outFiles.latest.rows) :
          outFiles.latest.rows[i].order_number \notin EXCLUDE_ORDERS

\* a run left demand unfilled although a denylisted order holds the upc, with
\* a ledger that records the denylisted order
DeniedSupplyUnused ==
    \E p \in Procs :
        /\ pc[p] = "done"
        /\ ledger0 = LegacyLedger
        /\ \E i \in 1..Len(unfilled[p]) :
              \E k \in 1..Len(AllRows(orderLog)) :
                  /\ AllRows(orderLog)[k].order_number \in EXCLUDE_ORDERS
                  /\ AllRows(orderLog)[k].upc = unfilled[p][i].upc

\* C6: BR applied to its own result gives that result.
BRIdempotent == brStage = 2 => brOut2 = brOut

\* C7: once a run has written the ledger, the ledger holds the rows it held
\* when the run started, in their order, followed by the run's batch.
AppendOnly ==
    \A p \in Procs :
        pc[p] \in Appended =>
            /\ ledger.exists
            /\ ledger.rows =
                   atStart[p].ledger.rows \o HistoryRows(alloc[p], stamp[p])

AppendedToPriorRows ==
    \E p \in Procs :
        /\ pc[p] \in Appended
        /\ atStart[p].ledger.rows # << >>
        /\ alloc[p] # << >>

\* the quantity the ledger held for (o, u) when p's run started
StartQty(p, o, u) ==
    SumQty(SelectSeq(atStart[p].ledger.rows,
                     LAMBDA r : r.order_number = o /\ r.upc = u))

\* when p's run started the ledger recorded, for every pooled record of the
\* requested upcs, at least the quantity ordered
ExhaustedAtStart(p) ==
    LET pl == BuildPool(orderLog, req[p])
    IN  \A i \in 1..Len(pl) :
            StartQty(p, pl[i].order_number, pl[i].upc)
                >= Ordered(pl[i].order_number, pl[i].upc)

\* C8: a run that starts with all supply of the requested upcs consumed
\* allocates nothing and leaves the ledger's rows as they were.
ExhaustedRunIsNoOp ==
    \A p \in Procs :
        (pc[p] \in Allocated /\ ExhaustedAtStart(p)) =>
            /\ alloc[p] = << >>
            /\ pc[p] \in Appended => ledger.rows = atStart[p].ledger.rows

\* some order number that BR leaves as it is has more in the ledger than ordered
OverAllocated ==
    \E i \in 1..Len(ledger.rows) :
        /\ BR(ledger.rows[i].order_number) = ledger.rows[i].order_number
        /\ LedgerQty(ledger.rows[i].order_number, ledger.rows[i].upc)
               > Ordered(ledger.rows[i].order_number, ledger.rows[i].upc)

\* C9: without mutual exclusion the ledger comes to hold more than was
\* ordered, and it does so only when a run read the ledger for reconciliation
\* while another had read it and not yet written its batch.
OverAllocationOnlyByOverlap == OverAllocated => overlapped

OverAllocatedByOverlap ==
    /\ OverAllocated
    /\ overlapped
    /\ \A p \in Procs : pc[p] = "done"

\* C10: a run that fails for want of the request file or the order log has
\* written nothing: the ledger and the output files are as they were when it
\* started.
FailedRunWroteNothing ==
    \A p \in Procs :
        pc[p] = "failed" =>
            /\ ledger = atStart[p].ledger
            /\ outFiles = atStart[p].outFiles

FailedWithoutRequestFile ==
    \E p \in Procs :
        /\ pc[p] = "failed"
        /\ ovFile[p] = << >>
        /\ ledger.rows # << >>
        /\ outFiles.email.exists

FailedWithoutOrderLog ==
    \E p \in Procs :
        /\ pc[p] = "failed"
        /\ ovFile[p] # << >>
        /\ ledger.rows # << >>
        /\ outFiles.email.exists

\* C11: every output is computed before the first one is persisted, so a run
\* that fails, at whatever step, leaves no partial output: the ledger and the
\* five output files are as they were when the run started.
CrashLeavesNoPartialOutput ==
    \A p \in Procs :
        pc[p] \in {"failed", "crashed"} =>
            /\ ledger = atStart[p].ledger
            /\ outFiles = atStart[p].outFiles

RECURSIVE SumLedgerRows(_)
\* the Qty of the ledger rows at the indices I, added up
SumLedgerRows(I) ==
    IF I = {} THEN 0
    ELSE LET i == CHOOSE j \in I : TRUE
         IN  ledger.rows[i].qty + SumLedgerRows(I \ {i})

\* the quantity the ledger states for pool key (o, u): its rows are matched by
\* their normalised order number and digits-only upc, denylisted rows apart
LedgerUsed(o, u) ==
    SumLedgerRows({i \in 1..Len(ledger.rows) :
                      /\ BR(ledger.rows[i].order_number) = o
                      /\ BR(ledger.rows[i].order_number) \notin EXCLUDE_ORDERS
                      /\ D(ledger.rows[i].upc) = u})

\* the pool of the run of p as it was built from the order log, each record
\* less what the ledger states for its key, the exhausted ones dropped
ExpectedPool(p) ==
    LET b == BuildPool(orderLog, req[p])
    IN  SelectSeq([i \in 1..Len(b) |->
                      LET used == LedgerUsed(b[i].order_number, b[i].upc)
                      IN  [b[i] EXCEPT !.avail_qty =
                              IF @ - used > 0 THEN @ - used ELSE 0]],
                  LAMBDA r : r.avail_qty > 0)

\* C12: after reconciliation every pool record holds max(0, its quantity less
\* the ledger quantity of its normalised (order number, upc), denylisted rows
\* not counted); records brought to zero are dropped and records the ledger
\* does not mention keep their quantity.
ReconciledPerRecord ==
    \A p \in Procs :
        pc[p] = "allocate" => pool[p] = SortPool(ExpectedPool(p))

\* a run whose ledger leaves one record partly used, one exhausted
ReconciledPartly ==
    \E p \in Procs :
        /\ pc[p] = "allocate"
        /\ ledger.exists
        /\ LET b == BuildPool(orderLog, req[p])
           IN  /\ \E i \in 1..Len(b) :
                     LET used == LedgerUsed(b[i].order_number, b[i].upc)
                     IN  used > 0 /\ used < b[i].avail_qty
               /\ \E i \in 1..Len(b) :
                     LedgerUsed(b[i].order_number, b[i].upc) >= b[i].avail_qty

\* the pool of the run of p as the loop of line 128 finds it; the ledger is the
\* one the run read as long as the run has not written it
PoolBefore(p) ==
    LET b == BuildPool(orderLog, req[p])
    IN  SortPool(IF ledger.exists THEN Reconcile(b, ledger.rows) ELSE b)

RECURSIVE AvailBefore(_, _, _)
\* the quantity the records of upc u hold before index i of pl
AvailBefore(pl, i, u) ==
    IF i <= 1 THEN 0
    ELSE AvailBefore(pl, i - 1, u)
         + (IF pl[i - 1].upc = u THEN pl[i - 1].avail_qty ELSE 0)

\* greedy FIFO: record i gives what is still needed once the records before
\* it have given all they hold, and no more than it holds
RefTake(pl, i, need) ==
    LET left == need - AvailBefore(pl, i, pl[i].upc)
    IN  IF left <= 0 THEN 0
        ELSE IF left <= pl[i].avail_qty THEN left ELSE pl[i].avail_qty

RECURSIVE RefAlloc(_, _)
\* the rows of the reference greedy FIFO, item by item in request order
RefAlloc(rq, pl) ==
    IF rq = << >> THEN << >>
    ELSE SelectSeq([i \in 1..Len(pl) |->
                       [order_number |-> pl[i].order_number,
                        datetime_ordered |-> pl[i].datetime_ordered,
                        upc |-> pl[i].upc,
                        qty |-> IF pl[i].upc = Head(rq).upc
                                THEN RefTake(pl, i, Head(rq).qty) ELSE 0]],
                   LAMBDA r : r.qty > 0)
         \o RefAlloc(Tail(rq), pl)

\* the rows of al as (order number, quantity) pairs
OrderQty(al) == [i \in 1..Len(al) |-> << al[i].order_number, al[i].qty >>]

\* p has run the loop on the request for fifteen against the two ten-unit orders
ScenarioRun(p) ==
    /\ pc[p] \in BeforeAppend
    /\ orderLog = ScenarioLog
    /\ ovFile[p] = ScenarioFile

\* C13: the run's alloc list is that of the reference greedy FIFO over the
\* reconciled, sorted pool (take = min(need, avail), a row iff take > 0).
\* Fifteen asked of orders [100] and [101] of ten each: with no ledger the
\* rows are ([100], 10), ([101], 5), nothing unfilled, 5 left on [101]; with
\* a ledger of ([100], 7, 10) the row is ([101], 10) and 5 are unfilled.
AllocIsGreedyFifo ==
    \A p \in Procs :
        /\ pc[p] \in BeforeAppend =>
               alloc[p] = RefAlloc(req[p], PoolBefore(p))
        /\ ScenarioRun(p) /\ ledger = NoLedger =>
               /\ OrderQty(alloc[p]) = << << S100, 10 >>, << S101, 5 >> >>
               /\ unfilled[p] = << >>
               /\ \E i \in 1..Len(pool[p]) :
                      pool[p][i].order_number = S101 /\ pool[p][i].avail_qty = 5
        /\ ScenarioRun(p) /\ ledger = ScenarioLedger =>
               /\ OrderQty(alloc[p]) = << << S101, 10 >> >>
               /\ unfilled[p] = << [upc |-> S7, qty |-> 5] >>

\* the second scenario has run: the ledger holds the ten of [100]
ScenarioWithLedgerRun ==
    \E p \in Procs : ScenarioRun(p) /\ ledger = ScenarioLedger /\ alloc[p] # << >>

\* the quantity the records of upc u hold in pl
AvailOfUpc(pl, u) == AvailBefore(pl, Len(pl) + 1, u)

\* the indices of the unfilled rows of p for upc u
UnfilledAt(p, u) == {j \in 1..Len(unfilled[p]) : unfilled[p][j].upc = u}

\* C14: a run records an unfilled row for an item exactly when the reconciled
\* pool holds less of the item than is requested; the row then states the
\* difference, every record of the item ends the run at zero, and no item
\* has two unfilled rows.
UnfilledIffExhausted ==
    \A p \in Procs :
        pc[p] \in BeforeAppend =>
            /\ \A k \in 1..Len(req[p]) :
                  LET u == req[p][k].upc
                      total == AvailOfUpc(PoolBefore(p), u)
                  IN  /\ (UnfilledAt(p, u) # {}) <=> (total < req[p][k].qty)
                      /\ Cardinality(UnfilledAt(p, u)) <= 1
                      /\ \A j \in UnfilledAt(p, u) :
                            /\ unfilled[p][j].qty = req[p][k].qty - total
                            /\ \A i \in 1..Len(pool[p]) :
                                  pool[p][i].upc = u => pool[p][i].avail_qty = 0
            /\ \A j \in 1..Len(unfilled[p]) :
                  \E k \in 1..Len(req[p]) : req[p][k].upc = unfilled[p][j].upc

\* an item is short after two records of it were emptied
UnfilledAfterExhaustion ==
    \E p \in Procs :
        /\ pc[p] \in BeforeAppend
        /\ Len(unfilled[p]) = 1
        /\ Len(alloc[p]) >= 2
        /\ \E i \in 1..Len(pool[p]) :
              pool[p][i].upc = unfilled[p][1].upc /\ pool[p][i].avail_qty = 0

\* a and b are the same line of the same order
SameRecord(a, b) ==
    /\ a.upc = b.upc
    /\ a.order_number = b.order_number
    /\ a.datetime_ordered = b.datetime_ordered

\* every record of new is a record of old, each of old taken at most once,
\* and holds a natural number that is no more than the old record held
Shrunk(new, old) ==
    \E f \in [1..Len(new) -> 1..Len(old)] :
        /\ \A i, j \in 1..Len(new) : f[i] = f[j] => i = j
        /\ \A j \in 1..Len(new) :
              /\ SameRecord(new[j], old[f[j]])
              /\ new[j].avail_qty \in Nat
              /\ new[j].avail_qty <= old[f[j]].avail_qty

\* at every position the pool is within what the order log ordered
PoolWithinOrdered ==
    \A p \in Procs :
        pc[p] \notin {"idle", "loadlog", "failed"} =>
            Shrunk(pool[p], BuildPool(orderLog, req[p]))

\* a step that changes the pool of p: reconciliation only lowers records or
\* drops them; the loop lowers record i by the quantity of its alloc row,
\* which is at least 1 and at most what the record held
PoolStep(p) ==
    /\ pc[p] = "history" => Shrunk(pool'[p], pool[p])
    /\ pc[p] = "allocate" =>
           /\ Len(pool'[p]) = Len(pool[p])
           /\ \A i \in 1..Len(pool[p]) :
                 /\ SameRecord(pool'[p][i], pool[p][i])
                 /\ pool'[p][i].avail_qty \in Nat
                 /\ pool'[p][i].avail_qty <= pool[p][i].avail_qty
           /\ \E g \in [1..Len(alloc'[p]) -> 1..Len(pool[p])] :
                 /\ \A i, j \in 1..Len(alloc'[p]) : g[i] = g[j] => i = j
                 /\ \A j \in 1..Len(alloc'[p]) :
                       /\ SameRecord(alloc'[p][j], pool[p][g[j]])
                       /\ alloc'[p][j].qty >= 1
                       /\ alloc'[p][j].qty <= pool[p][g[j]].avail_qty
                       /\ alloc'[p][j].qty
                             = pool[p][g[j]].avail_qty - pool'[p][g[j]].avail_qty

\* C15: through reconciliation and through the allocation loop every pool
\* record holds an integer >= 0 that never increases and never exceeds the
\* quantity of its order line; every alloc row has a quantity of at least 1
\* and at most what its record held just before the row was taken.
AvailMonotone ==
    /\ [] PoolWithinOrdered
    /\ [][\A p \in Procs : pc'[p] # pc[p] => PoolStep(p)]_vars

\* a record lowered by the ledger, then lowered again by the loop, not emptied
LoweredTwice ==
    \E p \in Procs :
        /\ pc[p] \in BeforeAppend
        /\ \E i \in 1..Len(pool[p]) :
              /\ pool[p][i].avail_qty > 0
              /\ pool[p][i].avail_qty < PoolBefore(p)[i].avail_qty
              /\ \E j \in 1..Len(BuildPool(orderLog, req[p])) :
                    /\ SameRecord(BuildPool(orderLog, req[p])[j], pool[p][i])
                    /\ PoolBefore(p)[i].avail_qty
                          < BuildPool(orderLog, req[p])[j].avail_qty

\* records a and b are of one upc and one order timestamp, a's order number
\* the smaller (as Python compares str)
TiedBefore(a, b) ==
    /\ a.upc = b.upc
    /\ a.datetime_ordered = b.datetime_ordered
    /\ StrLess(a.order_number, b.order_number)

\* C16: among pool records of one upc and one order timestamp the smaller
\* order number stands first in the sorted pool, and a record has an alloc
\* row only when every such record of a smaller order number is at zero.
TieBreakOrder ==
    \A p \in Procs :
        /\ pc[p] = "allocate" =>
               \A i, j \in 1..Len(pool[p]) :
                   TiedBefore(pool[p][i], pool[p][j]) => i < j
        /\ pc[p] \in Allocated =>
               \A i \in 1..Len(alloc[p]) : \A j \in 1..Len(pool[p]) :
                   TiedBefore(pool[p][j], alloc[p][i]) => pool[p][j].avail_qty = 0

\* an order number was taken from while one of the same second, greater as a
\* string and earlier in the order log, keeps its quantity
TieTakenFromSmaller ==
    \E p \in Procs :
        /\ pc[p] \in Allocated
        /\ \E i \in 1..Len(alloc[p]) : \E j \in 1..Len(pool[p]) :
              /\ TiedBefore(alloc[p][i], pool[p][j])
              /\ pool[p][j].avail_qty > 0

\* the rows of the request file that count towards upc u: the digits of their
\* Barcode are u and their Quantity is a number of integer part > 0
CountedRows(file, u) ==
    {i \in 1..Len(file) :
        /\ D(file[i].upc) = u
        /\ file[i].qty.num
        /\ file[i].qty.tenths >= 10}

RECURSIVE SumFileQty(_, _)
\* the integer parts of the Quantity cells at the indices I, added up
SumFileQty(file, I) ==
    IF I = {} THEN 0
    ELSE LET i == CHOOSE j \in I : TRUE
         IN  (file[i].qty.tenths \div 10) + SumFileQty(file, I \ {i})

\* C17: req has each digits-only upc at most once; a upc is in req exactly
\* when it is not empty and some row of the request file has it with a
\* quantity that coerces to an integer > 0, and its qty is the sum of those
\* quantities; rows of empty upc or of non-numeric, zero or negative
\* quantity add nothing.
DemandAggregated ==
    \A p \in Procs :
        /\ \A k, l \in 1..Len(req[p]) : req[p][k].upc = req[p][l].upc => k = l
        /\ \A k \in 1..Len(req[p]) :
              /\ req[p][k].upc # << >>
              /\ CountedRows(ovFile[p], req[p][k].upc) # {}
              /\ req[p][k].qty
                    = SumFileQty(ovFile[p], CountedRows(ovFile[p], req[p][k].upc))
        /\ \A i \in 1..Len(ovFile[p]) :
              LET u == D(ovFile[p][i].upc)
              IN  u # << >> /\ i \in CountedRows(ovFile[p], u) =>
                      \E k \in 1..Len(req[p]) : req[p][k].upc = u

\* a request file of which rows were dropped and a fractional quantity kept
\* by its integer part
DemandRowsDropped ==
    \E p \in Procs :
        /\ pc[p] = "loadlog"
        /\ Len(req[p]) = 1
        /\ \E i \in 1..Len(ovFile[p]) : ~ovFile[p][i].qty.num
        /\ \E i \in 1..Len(ovFile[p]) : D(ovFile[p][i].upc) = << >>
        /\ \E i \in 1..Len(ovFile[p]) :
              ovFile[p][i].qty.num /\ ovFile[p][i].qty.tenths < 0
        /\ \E i \in CountedRows(ovFile[p], req[p][1].upc) :
              ovFile[p][i].qty.tenths > 10 * req[p][1].qty

\* the quantity the rows of s from index n + 1 on hold for order number o, upc u
QtyAfter(s, n, o, u) ==
    SumQty(SelectSeq(SubSeq(s, n + 1, Len(s)),
                     LAMBDA r : r.order_number = o /\ r.upc = u))

\* p is the second run, the first one completed, and both asked for one and
\* the same upc only; the ledger holds the batches of both
SecondOfTwo(p) ==
    /\ runs = 2
    /\ pc[p] \in {"credit", "html", "email"}
    /\ prevRun.done
    /\ Len(Aggregate(prevRun.ov)) = 1
    /\ Len(req[p]) = 1
    /\ Aggregate(prevRun.ov)[1].upc = req[p][1].upc

\* one run on the sum of the two requests, from the ledger the first run found
SingleRun(p) ==
    LET rq == << [upc |-> req[p][1].upc,
                  qty |-> Aggregate(prevRun.ov)[1].qty + req[p][1].qty] >>
        b == BuildPool(orderLog, rq)
    IN  AllocateRun(rq, SortPool(IF ledger0.exists
                                 THEN Reconcile(b, ledger0.rows) ELSE b))

\* the two runs leave what the single run leaves: per (order number, upc) the
\* same quantity added to the ledger, and the same quantity unfilled in all
SameAsSingleRun(p) ==
    LET one == SingleRun(p)
        u == req[p][1].upc
        n == Len(ledger0.rows)
    IN  /\ \A i \in 1..Len(one.alloc) :
              QtyAfter(ledger.rows, n, one.alloc[i].order_number, u)
                  = QtyOfUpc(SelectSeq(one.alloc,
                                       LAMBDA r : r.order_number
                                                    = one.alloc[i].order_number), u)
        /\ \A i \in (n + 1)..Len(ledger.rows) :
              \E j \in 1..Len(one.alloc) :
                  one.alloc[j].order_number = ledger.rows[i].order_number
        /\ QtyOfUpc(atStart[p].outFiles.unfilled.rows, u) + QtyOfUpc(unfilled[p], u)
              = QtyOfUpc(one.unfilled, u)

\* C18: for one order log, a run with demand d1 followed by a run with demand
\* d2 for the same upc against the ledger the first one wrote leaves the same
\* ledger quantity per (order number, upc) and the same total unfilled
\* quantity as one run with demand d1 + d2 from the first ledger.
RunsAdditive ==
    \A p \in Procs : SecondOfTwo(p) => SameAsSingleRun(p)

\* no two records of p's pool share (order number, upc)
PoolKeysDistinct(p) ==
    LET pl == BuildPool(orderLog, req[p])
    IN  \A i, j \in 1..Len(pl) :
            pl[i].order_number = pl[j].order_number /\ pl[i].upc = pl[j].upc
                => i = j

\* The same, for pools whose order numbers BR leaves as they are and whose
\* (order number, upc) pairs are each on one line.
RunsAdditiveOnPlainPools ==
    \A p \in Procs :
        SecondOfTwo(p) /\ PoolNormalised(p) /\ PoolKeysDistinct(p)
            => SameAsSingleRun(p)

\* the quantity the records of order number o and upc u hold in pl
PairAvail(pl, o, u) ==
    SumAvail(SelectSeq(pl, LAMBDA r : r.order_number = o /\ r.upc = u))

\* the records of (o, u) hold after reconciliation what the order log
\* ordered for the pair less what the ledger states for it, or nothing
PairReconciled(p, o, u) ==
    LET ordered == PairAvail(BuildPool(orderLog, req[p]), o, u)
        used == LedgerUsed(o, u)
    IN  PairAvail(pool[p], o, u)
            = (IF ordered - used > 0 THEN ordered - used ELSE 0)

\* C19: after reconciliation the records of every (order number, upc) hold in
\* total max(0, quantity ordered for the pair - ledger quantity of the pair),
\* also when the pair is on several lines of one order or on several rows of
\* one normalised order number.
NoSupplyLost ==
    \A p \in Procs :
        pc[p] = "allocate" =>
            \A i \in 1..Len(BuildPool(orderLog, req[p])) :
                PairReconciled(p, BuildPool(orderLog, req[p])[i].order_number,
                               BuildPool(orderLog, req[p])[i].upc)

\* The same, for pools in which every (order number, upc) is on one line.
NoSupplyLostOnDistinctKeys ==
    \A p \in Procs :
        pc[p] = "allocate" /\ PoolKeysDistinct(p) =>
            \A i \in 1..Len(BuildPool(orderLog, req[p])) :
                PairReconciled(p, BuildPool(orderLog, req[p])[i].order_number,
                               BuildPool(orderLog, req[p])[i].upc)

\* the rows of the order log under order number o all have a date that parsed
\* (ok), or all have one that did not
DateParsed(o, ok) ==
    /\ \E k \in 1..Len(orderLog) : OrderNumber(orderLog[k]) = o
    /\ \A k \in 1..Len(orderLog) :
          OrderNumber(orderLog[k]) = o => orderLog[k].date.ok = ok

\* alloc row i of p is of a parsed order date, pool record j is of the same
\* upc and of a date that did not parse
UndatedRecord(p, i, j) ==
    /\ DateParsed(alloc[p][i].order_number, TRUE)
    /\ pool[p][j].upc = alloc[p][i].upc
    /\ DateParsed(pool[p][j].order_number, FALSE)

\* C20: a record whose order date did not parse (empty sort key) is consumed
\* before every dated record of its upc: a dated record has an alloc row only
\* when the undated records of the upc are at zero.
UndatedFirst ==
    \A p \in Procs :
        /\ pc[p] = "allocate" =>
               \A i, j \in 1..Len(pool[p]) :
                   /\ pool[p][i].upc = pool[p][j].upc
                   /\ DateParsed(pool[p][i].order_number, FALSE)
                   /\ DateParsed(pool[p][j].order_number, TRUE)
                   => i < j
        /\ pc[p] \in Allocated =>
               \A i \in 1..Len(alloc[p]) : \A j \in 1..Len(pool[p]) :
                   UndatedRecord(p, i, j) => pool[p][j].avail_qty = 0

\* a dated record was taken from after the undated one, listed after it in
\* the order log, was emptied
DatedAfterUndated ==
    \E p \in Procs :
        /\ pc[p] \in Allocated
        /\ Len(alloc[p]) = 2
        /\ DateParsed(alloc[p][1].order_number, FALSE)
        /\ \E j \in 1..Len(pool[p]) : UndatedRecord(p, 2, j)

============================================================================
